---------------------------- MODULE Spec2Model ----------------------------
(***************************************************************************)
(* Model of package proxy of rynowak/dapr: the HTTP proxy server           *)
(* (StartNonBlocking, server.RoundTrip and its local and remote paths,     *)
(* peer discovery), the identity parser (resolveTargetAppID), the          *)
(* transport pool (pool.Get) and the status monitor (SetStatus / Status).  *)
(*                                                                         *)
(* Go strings are sequences of one-character strings, so that              *)
(* strings.Split, strings.Join and fmt.Sprintf("%d") are computed and not  *)
(* assumed.                                                                *)
(***************************************************************************)
EXTENDS Integers, Sequences, FiniteSets, TLC

VARIABLES
    config,      \* server.config (ServerConfig), immutable after construction
    logger,      \* server.logger
    pc,          \* per request: position of the goroutine inside RoundTrip
    req,         \* per request: the *http.Request (Header, URL)
    appID,       \* per request: the resolvedAppID of RoundTrip
    addr,        \* per request: local variable addr of roundTripRemote
    calls,       \* per request: the calls made to the external capabilities, in order
    ret,         \* per request: what RoundTrip returned (or that it panicked)
    disc,        \* a call of getRemoteProxyAddress: its inputs and its result
    mutex,       \* pool.mutex: 0 when unlocked, else the goroutine holding it
    transports,  \* pool.transports: nil, or a map from address to *http.Transport
    created,     \* every http.Transport that pool.Get has constructed
    gpc,         \* per caller of pool.Get: position inside Get
    gaddr,       \* per caller of pool.Get: parameter addr
    gt,          \* per caller of pool.Get: local variable t
    returned,    \* the (caller, addr, transport) triples pool.Get has returned
    ngets,       \* number of calls of pool.Get so far
    status,      \* statusMonitor.status
    statusMutex, \* statusMonitor.statusMutex: 0 when unlocked, else the holder
    spc,         \* per caller of SetStatus / Status: position inside the method
    sarg,        \* per caller of SetStatus: parameter status
    sret,        \* per caller of Status: the value being returned
    passed,      \* every value passed to a SetStatus call so far
    lastSet,     \* the value of the SetStatus call that completed last
    sexpect,     \* per caller of Status: lastSet when the call started
    squiet,      \* per caller of Status: no SetStatus call overlaps the call
    nsets,       \* number of calls of SetStatus so far
    parse,       \* a call of resolveTargetAppID: its inputs and its result
    dial,        \* the last call of a pooled transport's DialContext
    lpc,         \* per call of StartNonBlocking: position of its goroutine
    listener     \* the HTTP listener on ProxyPort: 0, or the goroutine serving it

serverVars == <<config, logger, pc, req, appID, addr, calls, ret>>
poolVars == <<mutex, transports, created, gpc, gaddr, gt, returned, ngets, dial>>
statusVars == <<status, statusMutex, spc, sarg, sret, passed, lastSet, sexpect, squiet, nsets>>
startVars == <<lpc, listener>>
vars == <<serverVars, disc, parse, poolVars, statusVars, startVars>>

-----------------------------------------------------------------------------
(* Bounds *)

\* number of requests handled concurrently by the HTTP server
NumRequests == 2

\* longest address string handed to getRemoteProxyAddress
MaxAddrLen == 4

\* number of goroutines calling pool.Get, and of calls they make in all
NumGetCallers == 2
MaxGetCalls == 2

\* number of goroutines calling SetStatus and Status, and of SetStatus calls in all
NumWriters == 1
NumReaders == 1
MaxSetStatusCalls == 2

\* number of calls of StartNonBlocking
NumStarts == 2

\* longest Destination-App-Id value handed to resolveTargetAppID
MaxIdLen == 3

-----------------------------------------------------------------------------
(* Go string functions *)

\* strings.Split(s, sep) for a one-character separator: n separators give n+1 items
RECURSIVE Split(_, _)
Split(s, sep) ==
    IF s = <<>> THEN << <<>> >>
    ELSE LET rest == Split(Tail(s), sep)
         IN  IF Head(s) = sep
             THEN << <<>> >> \o rest
             ELSE << <<Head(s)>> \o Head(rest) >> \o Tail(rest)

\* strings.Join(parts, sep)
RECURSIVE Join(_, _)
Join(parts, sep) ==
    IF Len(parts) = 0 THEN <<>>
    ELSE IF Len(parts) = 1 THEN parts[1]
    ELSE parts[1] \o <<sep>> \o Join(Tail(parts), sep)

DigitChars == <<"0", "1", "2", "3", "4", "5", "6", "7", "8", "9">>

RECURSIVE FormatNat(_)
FormatNat(n) ==
    IF n < 10 THEN <<DigitChars[n + 1]>>
    ELSE FormatNat(n \div 10) \o <<DigitChars[(n % 10) + 1]>>

\* fmt.Sprintf("%d", n)
FormatInt(n) == IF n < 0 THEN <<"-">> \o FormatNat(0 - n) ELSE FormatNat(n)

-----------------------------------------------------------------------------
(* Values *)

Nil == "nil"

\* the ServerConfig value the server is constructed with
Configs ==
    { [ProxyPort |-> 3500, ApplicationPort |-> 8080,
       Namespace |-> <<"n">>, AppID |-> <<"a">>] }

\* req.Header["Destination-App-Id"] of an inbound request: the map lookup's
\* (values, ok); the key is absent (NoHeader) or maps to a list of values
AppIDHeaderValues ==
    { <<>>, <<"a">>, <<"b">>,
      <<"a", ".", "n">>, <<"a", ".", "m">>,
      <<"a", ".", "n", ".", "x">> }

NoHeader == [ok |-> FALSE, values |-> <<>>]
HeaderOf(values) == [ok |-> TRUE, values |-> values]

AppIDHeaders ==
    {NoHeader} \cup { HeaderOf(<<>>) } \cup { HeaderOf(<<v>>) : v \in AppIDHeaderValues }
               \cup { HeaderOf(<<v, <<"a">> >>) : v \in { <<>>, <<"a">> } }

\* the URL of an inbound server request: no scheme, no host
InboundURL == [Scheme |-> <<>>, Host |-> <<>>]

HTTP == <<"h", "t", "t", "p">>

\* the addresses the name resolver may answer with
ResolvedAddrs == { <<"h", ":", "1">>, <<"1", "0", ".", "5", ":", "3", "5">> }

\* the ProxyStatusResponse values a remote peer may answer with
PeerStatuses == [Enabled : BOOLEAN, Port : {9000, 81}]

ZeroStatus == [Enabled |-> FALSE, Port |-> 0]

\* the outcomes of the two external calls of getRemoteProxyAddress:
\* connectionCreatorFn fails, GetProxyStatus fails, or the peer answers
DiscoveryOutcomes ==
    { [connErr |-> TRUE, rpcErr |-> FALSE, status |-> ZeroStatus],
      [connErr |-> FALSE, rpcErr |-> TRUE, status |-> ZeroStatus] }
    \cup { [connErr |-> FALSE, rpcErr |-> FALSE, status |-> st] : st \in PeerStatuses }

\* the outcomes of http.DefaultTransport.RoundTrip: a response or an error
NilResponse == [nil |-> TRUE]
UpstreamResponse ==
    [StatusCode |-> 200, ContentType |-> "upstream",
     Body |-> [errorCode |-> "", message |-> "upstream"]]
TransportError == "transport error"
ForwardOutcomes == { [resp |-> UpstreamResponse, err |-> Nil], [resp |-> NilResponse, err |-> TransportError] }

Requests == 1 .. NumRequests

-----------------------------------------------------------------------------
(* Pure functions of the package *)

\* daprhttp.NewErrorResponse(errorCode, message)
NewErrorResponse(errorCode, message) == [errorCode |-> errorCode, message |-> message]

\* respondWithError: the code parameter is not used, StatusCode is the literal 400
respondWithError(code, e) ==
    [StatusCode |-> 400, ContentType |-> "application/json", Body |-> e]

\* resolvedAppID{}
ZeroAppID == [Original |-> <<>>, Namespace |-> <<>>, AppID |-> <<>>]

\* resolveTargetAppID with the two items of a dotted identity taken the other way round
resolveTargetAppIDSwapped(namespace, original) ==
    LET items == Split(original, ".")
    IN  IF Len(items) = 1
        THEN [id |-> [Original |-> original, Namespace |-> namespace, AppID |-> original],
              err |-> Nil]
        ELSE IF Len(items) = 2
        THEN [id |-> [Original |-> original, Namespace |-> items[1], AppID |-> items[2]],
              err |-> Nil]
        ELSE [id |-> ZeroAppID, err |-> "invalid app id"]

\* resolveTargetAppID(namespace, original): (resolvedAppID, error)
resolveTargetAppID(namespace, original) ==
    LET items == Split(original, ".")
    IN  IF Len(items) = 1
        THEN [id |-> [Original |-> original, Namespace |-> namespace, AppID |-> original],
              err |-> Nil]
        ELSE IF Len(items) = 2
        THEN [id |-> [Original |-> original, Namespace |-> items[2], AppID |-> items[1]],
              err |-> Nil]
        ELSE [id |-> ZeroAppID, err |-> "invalid app id"]

\* RoundTrip's test of the header: !ok || len(appIDHeader) != 1 || appIDHeader[0] == ""
\* (below, first: the test without its last disjunct)
HeaderRejectedNoEmptyTest(header) ==
    \/ ~header.ok
    \/ Len(header.values) # 1

HeaderRejected(header) ==
    \/ ~header.ok
    \/ Len(header.values) # 1
    \/ header.values[1] = <<>>

\* the local test with the namespace comparison left out
IsLocalAppIDOnly(id, cfg) == id.AppID = cfg.AppID

\* RoundTrip's test for the local path
IsLocal(id, cfg) == id.AppID = cfg.AppID /\ id.Namespace = cfg.Namespace

\* the local rewrite with the proxy's own port in place of the application's
LocalURLProxyPort(cfg) ==
    [Scheme |-> HTTP,
     Host |-> <<"l", "o", "c", "a", "l", "h", "o", "s", "t", ":">> \o FormatInt(cfg.ProxyPort)]

\* roundTripLocal's rewrite of req.URL
LocalURL(cfg) ==
    [Scheme |-> HTTP,
     Host |-> <<"l", "o", "c", "a", "l", "h", "o", "s", "t", ":">> \o FormatInt(cfg.ApplicationPort)]

\* roundTripRemote's rewrite of req.URL
RemoteURL(a) == [Scheme |-> HTTP, Host |-> a]

\* nr.ResolveRequest built by roundTripRemote
ResolveRequest(id, cfg) == [ID |-> id.AppID, Namespace |-> id.Namespace, Port |-> cfg.ProxyPort]

\* getRemoteProxyAddress without the test of status.Enabled
getRemoteProxyAddressNoEnabledTest(a, outcome) ==
    IF outcome.connErr THEN [addr |-> <<>>, err |-> "connection error"]
    ELSE IF outcome.rpcErr THEN [addr |-> <<>>, err |-> "rpc error"]
    ELSE LET parts == Split(a, ":")
             replaced == [parts EXCEPT ![Len(parts)] = FormatInt(outcome.status.Port)]
         IN  [addr |-> Join(replaced, ":"), err |-> Nil]

\* getRemoteProxyAddress taking the first colon-delimited segment as the host
getRemoteProxyAddressFirstSegment(a, outcome) ==
    IF outcome.connErr THEN [addr |-> <<>>, err |-> "connection error"]
    ELSE IF outcome.rpcErr THEN [addr |-> <<>>, err |-> "rpc error"]
    ELSE IF ~outcome.status.Enabled THEN [addr |-> <<>>, err |-> "remote proxy is not enabled"]
    ELSE LET parts == Split(a, ":")
         IN  [addr |-> Join(<<parts[1], FormatInt(outcome.status.Port)>>, ":"), err |-> Nil]

\* getRemoteProxyAddress(addr, ...): (string, error), given the outcome of its
\* two external calls
getRemoteProxyAddress(a, outcome) ==
    IF outcome.connErr THEN [addr |-> <<>>, err |-> "connection error"]
    ELSE IF outcome.rpcErr THEN [addr |-> <<>>, err |-> "rpc error"]
    ELSE IF ~outcome.status.Enabled THEN [addr |-> <<>>, err |-> "remote proxy is not enabled"]
    ELSE LET parts == Split(a, ":")
             replaced == [parts EXCEPT ![Len(parts)] = FormatInt(outcome.status.Port)]
         IN  [addr |-> Join(replaced, ":"), err |-> Nil]

\* the external calls getRemoteProxyAddress makes for an outcome, in order
DiscoveryCalls(a, id, outcome) ==
    << [op |-> "connectionCreatorFn", addr |-> a, id |-> id.AppID,
        namespace |-> id.Namespace, ok |-> ~outcome.connErr] >>
    \o (IF outcome.connErr THEN <<>>
        ELSE << [op |-> "GetProxyStatus", ok |-> ~outcome.rpcErr, status |-> outcome.status] >>)

\* what RoundTrip hands back to httputil.ReverseProxy
Returned(resp, err) == [resp |-> resp, err |-> err, panicked |-> FALSE]
Panicked == [resp |-> NilResponse, err |-> Nil, panicked |-> TRUE]
NotReturned == [resp |-> NilResponse, err |-> Nil, panicked |-> FALSE]

\* a reject path: s.logger.Debugf(...) and then return respondWithError(code, msg), nil.
\* A method call on a nil interface value panics before the return.
Reject(lg, code, msg) ==
    IF lg = Nil THEN Panicked ELSE Returned(respondWithError(code, msg), Nil)

-----------------------------------------------------------------------------
(* The server *)

\* NewProxyServer: the struct literal sets config, monitor, resolver and
\* connectionCreatorFn; the logger field keeps its zero value
NewProxyServer(cfg) == [config |-> cfg, logger |-> Nil]

ServerInit ==
    /\ \E cfg \in Configs :
          /\ config = NewProxyServer(cfg).config
          /\ logger = NewProxyServer(cfg).logger
    /\ pc = [r \in Requests |-> "idle"]
    /\ req = [r \in Requests |-> [Header |-> NoHeader, URL |-> InboundURL]]
    /\ appID = [r \in Requests |-> ZeroAppID]
    /\ addr = [r \in Requests |-> <<>>]
    /\ calls = [r \in Requests |-> <<>>]
    /\ ret = [r \in Requests |-> NotReturned]

\* httputil.ReverseProxy hands an inbound request to the Transport
Receive(r) ==
    /\ pc[r] = "idle"
    /\ \E h \in AppIDHeaders :
          req' = [req EXCEPT ![r] = [Header |-> h, URL |-> InboundURL]]
    /\ pc' = [pc EXCEPT ![r] = "RoundTrip"]
    /\ UNCHANGED <<config, logger, appID, addr, calls, ret, disc, parse, startVars, poolVars, statusVars>>

\* RoundTrip up to the call of roundTripLocal or roundTripRemote
RoundTrip(r) ==
    /\ pc[r] = "RoundTrip"
    /\ LET h == req[r].Header
       IN  IF HeaderRejected(h)
           THEN /\ ret' = [ret EXCEPT ![r] =
                       Reject(logger, 400, NewErrorResponse("ERR_MISSING_APPID", "appid must be specified"))]
                /\ pc' = [pc EXCEPT ![r] = "done"]
                /\ UNCHANGED appID
           ELSE LET parsed == resolveTargetAppID(config.Namespace, h.values[1])
                IN  IF parsed.err # Nil
                    THEN /\ ret' = [ret EXCEPT ![r] =
                                Reject(logger, 400, NewErrorResponse("ERR_MISSING_APPID", "appid is invalid"))]
                         /\ pc' = [pc EXCEPT ![r] = "done"]
                         /\ UNCHANGED appID
                    ELSE /\ appID' = [appID EXCEPT ![r] = parsed.id]
                         /\ pc' = [pc EXCEPT ![r] =
                                IF IsLocal(parsed.id, config) THEN "roundTripLocal" ELSE "roundTripRemote"]
                         /\ UNCHANGED ret
    /\ UNCHANGED <<config, logger, req, addr, calls, disc, parse, startVars, poolVars, statusVars>>

\* roundTripLocal: rewrite the URL, forward through the default transport
RoundTripLocal(r) ==
    /\ pc[r] = "roundTripLocal"
    /\ \E out \in ForwardOutcomes :
          LET url == LocalURL(config)
          IN  /\ req' = [req EXCEPT ![r].URL = url]
              /\ calls' = [calls EXCEPT ![r] = Append(@,
                     [op |-> "DefaultTransport.RoundTrip", url |-> url, ok |-> out.err = Nil])]
              /\ ret' = [ret EXCEPT ![r] = Returned(out.resp, out.err)]
    /\ pc' = [pc EXCEPT ![r] = "done"]
    /\ UNCHANGED <<config, logger, appID, addr, disc, parse, startVars, poolVars, statusVars>>

\* roundTripRemote, lines 115-121: name resolution
ResolveID(r) ==
    /\ pc[r] = "roundTripRemote"
    /\ \E res \in {[addr |-> <<>>, err |-> "unresolved"]} \cup {[addr |-> a, err |-> Nil] : a \in ResolvedAddrs} :
          /\ calls' = [calls EXCEPT ![r] = Append(@,
                 [op |-> "ResolveID", request |-> ResolveRequest(appID[r], config),
                  ok |-> res.err = Nil, addr |-> res.addr])]
          /\ addr' = [addr EXCEPT ![r] = res.addr]
          /\ IF res.err # Nil
             THEN /\ ret' = [ret EXCEPT ![r] =
                         Reject(logger, 400, NewErrorResponse("ERR_UNRESOLVED_APPID", "appid cannot be resolved"))]
                  /\ pc' = [pc EXCEPT ![r] = "done"]
             ELSE /\ pc' = [pc EXCEPT ![r] = "getRemoteProxyAddress"]
                  /\ UNCHANGED ret
    /\ UNCHANGED <<config, logger, req, appID, disc, parse, startVars, poolVars, statusVars>>

\* roundTripRemote, lines 124-129: peer discovery
\* (below, first: discovery with the URL rewritten before the error is tested)
GetRemoteProxyAddressRewriteFirst(r) ==
    /\ pc[r] = "getRemoteProxyAddress"
    /\ \E outcome \in DiscoveryOutcomes :
          LET res == getRemoteProxyAddress(addr[r], outcome)
          IN  /\ calls' = [calls EXCEPT ![r] = @ \o DiscoveryCalls(addr[r], appID[r], outcome)]
              /\ addr' = [addr EXCEPT ![r] = res.addr]
              /\ req' = [req EXCEPT ![r].URL = RemoteURL(res.addr)]
              /\ IF res.err # Nil
                 THEN /\ ret' = [ret EXCEPT ![r] =
                             Reject(logger, 500, NewErrorResponse("ERR_INTERNAL", "DERP"))]
                      /\ pc' = [pc EXCEPT ![r] = "done"]
                 ELSE /\ pc' = [pc EXCEPT ![r] = "forwardRemote"]
                      /\ UNCHANGED ret
    /\ UNCHANGED <<config, logger, appID, disc, parse, startVars, poolVars, statusVars>>

GetRemoteProxyAddress(r) ==
    /\ pc[r] = "getRemoteProxyAddress"
    /\ \E outcome \in DiscoveryOutcomes :
          LET res == getRemoteProxyAddress(addr[r], outcome)
          IN  /\ calls' = [calls EXCEPT ![r] = @ \o DiscoveryCalls(addr[r], appID[r], outcome)]
              /\ addr' = [addr EXCEPT ![r] = res.addr]
              /\ IF res.err # Nil
                 THEN /\ ret' = [ret EXCEPT ![r] =
                             Reject(logger, 500, NewErrorResponse("ERR_INTERNAL", "DERP"))]
                      /\ pc' = [pc EXCEPT ![r] = "done"]
                 ELSE /\ pc' = [pc EXCEPT ![r] = "forwardRemote"]
                      /\ UNCHANGED ret
    /\ UNCHANGED <<config, logger, req, appID, disc, parse, startVars, poolVars, statusVars>>

\* roundTripRemote, lines 144-148: rewrite the URL, forward through the default transport
\* (below, first: the forward taking the address from a field shared by the requests)
ForwardRemoteSharedAddr(r) ==
    /\ pc[r] = "forwardRemote"
    /\ \E out \in ForwardOutcomes :
          LET url == RemoteURL(addr[CHOOSE q \in Requests : q # r])
          IN  /\ req' = [req EXCEPT ![r].URL = url]
              /\ calls' = [calls EXCEPT ![r] = Append(@,
                     [op |-> "DefaultTransport.RoundTrip", url |-> url, ok |-> out.err = Nil])]
              /\ ret' = [ret EXCEPT ![r] = Returned(out.resp, out.err)]
    /\ pc' = [pc EXCEPT ![r] = "done"]
    /\ UNCHANGED <<config, logger, appID, addr, disc, parse, startVars, poolVars, statusVars>>

ForwardRemote(r) ==
    /\ pc[r] = "forwardRemote"
    /\ \E out \in ForwardOutcomes :
          LET url == RemoteURL(addr[r])
          IN  /\ req' = [req EXCEPT ![r].URL = url]
              /\ calls' = [calls EXCEPT ![r] = Append(@,
                     [op |-> "DefaultTransport.RoundTrip", url |-> url, ok |-> out.err = Nil])]
              /\ ret' = [ret EXCEPT ![r] = Returned(out.resp, out.err)]
    /\ pc' = [pc EXCEPT ![r] = "done"]
    /\ UNCHANGED <<config, logger, appID, addr, disc, parse, startVars, poolVars, statusVars>>

-----------------------------------------------------------------------------
(* Peer discovery on its own: getRemoteProxyAddress applied to an address *)

AddrAlphabet == {"h", ":", "5"}

RECURSIVE StringsUpTo(_, _)
StringsUpTo(alphabet, n) ==
    IF n = 0 THEN { <<>> }
    ELSE LET shorter == StringsUpTo(alphabet, n - 1)
         IN  shorter \cup { Append(w, c) : w \in shorter, c \in alphabet }

\* the example address of the specification
ExampleAddr == <<"1", "0", ".", "0", ".", "0", ".", "5", ":", "3", "5", "0", "0">>

DiscoveryAddrs == StringsUpTo(AddrAlphabet, MaxAddrLen) \cup {ExampleAddr}

DiscoveryInputs ==
    { [connErr |-> TRUE, rpcErr |-> FALSE, status |-> ZeroStatus],
      [connErr |-> FALSE, rpcErr |-> TRUE, status |-> ZeroStatus] }
    \cup { [connErr |-> FALSE, rpcErr |-> FALSE, status |-> st] :
               st \in [Enabled : BOOLEAN, Port : {0, 7, 81, 9000}] }

NoDiscovery ==
    [addr |-> <<>>, outcome |-> [connErr |-> FALSE, rpcErr |-> FALSE, status |-> ZeroStatus],
     called |-> FALSE, result |-> [addr |-> <<>>, err |-> Nil]]

DiscInit ==
    \E a \in DiscoveryAddrs, o \in DiscoveryInputs :
        disc = [NoDiscovery EXCEPT !.addr = a, !.outcome = o]

\* one call of getRemoteProxyAddress
Discover ==
    /\ ~disc.called
    /\ disc' = [disc EXCEPT !.called = TRUE,
                            !.result = getRemoteProxyAddress(disc.addr, disc.outcome)]
    /\ UNCHANGED <<serverVars, parse, startVars, poolVars, statusVars>>

-----------------------------------------------------------------------------
(* The transport pool *)

GetCallers == 1 .. NumGetCallers

\* the addresses pool.Get is called with
PoolKeys == { <<"h", ":", "1">>, <<"h", ":", "2">> }

\* the zero value of pool: unlocked mutex, nil map
NilMap == [isNil |-> TRUE, m |-> <<>>]
NoTransport == [id |-> 0, dials |-> <<>>]

\* the addresses the transport layer hands to DialContext
DialArgs == { <<"h", ":", "1">>, <<"x", ":", "9">> }

NoDial == [called |-> FALSE, by |-> 0, key |-> <<>>, arg |-> <<>>, address |-> <<>>]

PoolInit ==
    /\ mutex = 0
    /\ transports = NilMap
    /\ created = {}
    /\ gpc = [g \in GetCallers |-> "idle"]
    /\ gaddr = [g \in GetCallers |-> <<>>]
    /\ gt = [g \in GetCallers |-> NoTransport]
    /\ returned = {}
    /\ ngets = 0
    /\ dial = NoDial

\* a goroutine calls p.Get(addr, ap)
GetCall(g) ==
    /\ gpc[g] = "idle"
    /\ ngets < MaxGetCalls
    /\ ngets' = ngets + 1
    /\ \E k \in PoolKeys : gaddr' = [gaddr EXCEPT ![g] = k]
    /\ gt' = [gt EXCEPT ![g] = NoTransport]
    /\ gpc' = [gpc EXCEPT ![g] = "Lock"]
    /\ UNCHANGED <<mutex, transports, created, returned, dial, serverVars, disc, parse, startVars, statusVars>>

\* p.mutex.Lock() without the wait for the mutex
GetLockNoWait(g) ==
    /\ gpc[g] = "Lock"
    /\ gpc' = [gpc EXCEPT ![g] = "init"]
    /\ UNCHANGED <<mutex, transports, created, gaddr, gt, returned, ngets, dial, serverVars, disc, parse, startVars, statusVars>>

\* p.mutex.Lock()
GetLock(g) ==
    /\ gpc[g] = "Lock"
    /\ mutex = 0
    /\ mutex' = g
    /\ gpc' = [gpc EXCEPT ![g] = "init"]
    /\ UNCHANGED <<transports, created, gaddr, gt, returned, ngets, dial, serverVars, disc, parse, startVars, statusVars>>

\* if p.transports == nil { p.transports = map[string]*http.Transport{} }
GetInit(g) ==
    /\ gpc[g] = "init"
    /\ transports' = IF transports.isNil THEN [isNil |-> FALSE, m |-> <<>>] ELSE transports
    /\ gpc' = [gpc EXCEPT ![g] = "lookup"]
    /\ UNCHANGED <<mutex, created, gaddr, gt, returned, ngets, dial, serverVars, disc, parse, startVars, statusVars>>

\* t, ok := p.transports[addr]; if !ok
GetLookup(g) ==
    /\ gpc[g] = "lookup"
    /\ IF gaddr[g] \in DOMAIN transports.m
       THEN /\ gt' = [gt EXCEPT ![g] = transports.m[gaddr[g]]]
            /\ gpc' = [gpc EXCEPT ![g] = "return"]
       ELSE /\ gpc' = [gpc EXCEPT ![g] = "create"]
            /\ UNCHANGED gt
    /\ UNCHANGED <<mutex, transports, created, gaddr, returned, ngets, dial, serverVars, disc, parse, startVars, statusVars>>

\* t = &http.Transport{DialContext: ...dials addr...}; p.transports[addr] = t
\* (below, first: the creation of a transport that connects to addr at once)
GetCreateDialing(g) ==
    /\ gpc[g] = "create"
    /\ LET t == [id |-> Cardinality(created) + 1, dials |-> gaddr[g]]
       IN  /\ created' = created \cup {t}
           /\ gt' = [gt EXCEPT ![g] = t]
           /\ transports' = [transports EXCEPT !.m =
                  [k \in DOMAIN transports.m \cup {gaddr[g]} |->
                      IF k = gaddr[g] THEN t ELSE transports.m[k]]]
           /\ dial' = [called |-> TRUE, by |-> g, key |-> gaddr[g], arg |-> gaddr[g],
                       address |-> gaddr[g]]
    /\ gpc' = [gpc EXCEPT ![g] = "return"]
    /\ UNCHANGED <<mutex, gaddr, returned, ngets, serverVars, disc, parse, startVars, statusVars>>

GetCreate(g) ==
    /\ gpc[g] = "create"
    /\ LET t == [id |-> Cardinality(created) + 1, dials |-> gaddr[g]]
       IN  /\ created' = created \cup {t}
           /\ gt' = [gt EXCEPT ![g] = t]
           /\ transports' = [transports EXCEPT !.m =
                  [k \in DOMAIN transports.m \cup {gaddr[g]} |->
                      IF k = gaddr[g] THEN t ELSE transports.m[k]]]
    /\ gpc' = [gpc EXCEPT ![g] = "return"]
    /\ UNCHANGED <<mutex, gaddr, returned, ngets, dial, serverVars, disc, parse, startVars, statusVars>>

\* return t, nil; the deferred p.mutex.Unlock()
\* (below, first: the return without the deferred unlock)
GetReturnNoUnlock(g) ==
    /\ gpc[g] = "return"
    /\ returned' = returned \cup {[caller |-> g, addr |-> gaddr[g], t |-> gt[g]]}
    /\ gpc' = [gpc EXCEPT ![g] = "idle"]
    /\ UNCHANGED <<mutex, transports, created, gaddr, gt, ngets, dial, serverVars, disc, parse, startVars, statusVars>>

GetReturn(g) ==
    /\ gpc[g] = "return"
    /\ returned' = returned \cup {[caller |-> g, addr |-> gaddr[g], t |-> gt[g]]}
    /\ mutex' = 0
    /\ gpc' = [gpc EXCEPT ![g] = "idle"]
    /\ UNCHANGED <<transports, created, gaddr, gt, ngets, dial, serverVars, disc, parse, startVars, statusVars>>

\* DialContext of a pooled transport with the address the transport layer provides
DialContextProvided(t, network, address) == address

\* DialContext: func(ctx, network, _ string) { return d.DialContext(ctx, network, addr) }
DialContext(t, network, address) == t.dials

\* the goroutine that got a transport from Get sends through it: the transport
\* layer calls its DialContext with an address of its own
Dial(g) ==
    /\ gpc[g] = "idle"
    /\ \E x \in returned, a \in DialArgs :
          /\ x.caller = g
          /\ dial' = [called |-> TRUE, by |-> g, key |-> x.addr, arg |-> a,
                      address |-> DialContext(x.t, "tcp", a)]
    /\ UNCHANGED <<mutex, transports, created, gpc, gaddr, gt, returned, ngets, serverVars, disc, parse, startVars, statusVars>>

-----------------------------------------------------------------------------
(* The status monitor *)

\* goroutines calling SetStatus, and goroutines calling Status
Writers == 1 .. NumWriters
Readers == (NumWriters + 1) .. (NumWriters + NumReaders)

\* the goroutines started by StartNonBlocking; each calls SetStatus once
Starters == (NumWriters + NumReaders + 1) .. (NumWriters + NumReaders + NumStarts)

\* the values SetStatus is called with
StatusValues ==
    { [Enabled |-> TRUE, Port |-> 8080],
      [Enabled |-> FALSE, Port |-> 7070] }

\* NewStatusMonitor: &statusMonitor{}
StatusInit ==
    /\ status = ZeroStatus
    /\ statusMutex = 0
    /\ spc = [p \in Writers \cup Readers \cup Starters |-> "idle"]
    /\ sarg = [w \in Writers \cup Starters |-> ZeroStatus]
    /\ sret = [r \in Readers |-> ZeroStatus]
    /\ passed = {}
    /\ lastSet = ZeroStatus
    /\ sexpect = [r \in Readers |-> ZeroStatus]
    /\ squiet = [r \in Readers |-> FALSE]
    /\ nsets = 0

\* a goroutine calls SetStatus(v)
SetStatusCall(w) ==
    /\ spc[w] = "idle"
    /\ nsets < MaxSetStatusCalls
    /\ nsets' = nsets + 1
    /\ \E v \in StatusValues :
          /\ sarg' = [sarg EXCEPT ![w] = v]
          /\ passed' = passed \cup {v}
    /\ squiet' = [r \in Readers |-> IF spc[r] = "idle" THEN squiet[r] ELSE FALSE]
    /\ spc' = [spc EXCEPT ![w] = "Lock"]
    /\ UNCHANGED <<status, statusMutex, sret, lastSet, sexpect, serverVars, disc, parse, startVars, poolVars>>

\* s.statusMutex.Lock() of SetStatus without the wait for the mutex
SetStatusLockNoWait(w) ==
    /\ spc[w] = "Lock"
    /\ spc' = [spc EXCEPT ![w] = "Enabled"]
    /\ UNCHANGED <<status, statusMutex, sarg, sret, passed, lastSet, sexpect, squiet, nsets, serverVars, disc, parse, startVars, poolVars>>

\* s.statusMutex.Lock() of SetStatus
SetStatusLock(w) ==
    /\ spc[w] = "Lock"
    /\ statusMutex = 0
    /\ statusMutex' = w
    /\ spc' = [spc EXCEPT ![w] = "Enabled"]
    /\ UNCHANGED <<status, sarg, sret, passed, lastSet, sexpect, squiet, nsets, serverVars, disc, parse, startVars, poolVars>>

\* s.status = status: the struct is copied field by field, Enabled first
SetStatusEnabled(w) ==
    /\ spc[w] = "Enabled"
    /\ status' = [status EXCEPT !.Enabled = sarg[w].Enabled]
    /\ spc' = [spc EXCEPT ![w] = "Port"]
    /\ UNCHANGED <<statusMutex, sarg, sret, passed, lastSet, sexpect, squiet, nsets, serverVars, disc, parse, startVars, poolVars>>

\* s.status = status: then Port
SetStatusPort(w) ==
    /\ spc[w] = "Port"
    /\ status' = [status EXCEPT !.Port = sarg[w].Port]
    /\ spc' = [spc EXCEPT ![w] = "Unlock"]
    /\ UNCHANGED <<statusMutex, sarg, sret, passed, lastSet, sexpect, squiet, nsets, serverVars, disc, parse, startVars, poolVars>>

\* s.statusMutex.Unlock() and return
SetStatusUnlock(w) ==
    /\ spc[w] = "Unlock"
    /\ statusMutex' = 0
    /\ lastSet' = sarg[w]
    /\ spc' = [spc EXCEPT ![w] = "idle"]
    /\ UNCHANGED <<status, sarg, sret, passed, sexpect, squiet, nsets, serverVars, disc, parse, startVars, poolVars>>

\* a goroutine calls Status()
StatusCall(r) ==
    /\ spc[r] \in {"idle", "returned"}
    /\ sexpect' = [sexpect EXCEPT ![r] = lastSet]
    /\ sret' = [sret EXCEPT ![r] = ZeroStatus]
    /\ squiet' = [squiet EXCEPT ![r] = \A w \in Writers \cup Starters : spc[w] = "idle"]
    /\ spc' = [spc EXCEPT ![r] = "Lock"]
    /\ UNCHANGED <<status, statusMutex, sarg, passed, lastSet, nsets, serverVars, disc, parse, startVars, poolVars>>

\* s.statusMutex.Lock() of Status
StatusLock(r) ==
    /\ spc[r] = "Lock"
    /\ statusMutex = 0
    /\ statusMutex' = r
    /\ spc' = [spc EXCEPT ![r] = "Enabled"]
    /\ UNCHANGED <<status, sarg, sret, passed, lastSet, sexpect, squiet, nsets, serverVars, disc, parse, startVars, poolVars>>

\* return s.status: the struct is copied field by field, Enabled first
StatusEnabled(r) ==
    /\ spc[r] = "Enabled"
    /\ sret' = [sret EXCEPT ![r].Enabled = status.Enabled]
    /\ spc' = [spc EXCEPT ![r] = "Port"]
    /\ UNCHANGED <<status, statusMutex, sarg, passed, lastSet, sexpect, squiet, nsets, serverVars, disc, parse, startVars, poolVars>>

\* return s.status: then Port
StatusPort(r) ==
    /\ spc[r] = "Port"
    /\ sret' = [sret EXCEPT ![r].Port = status.Port]
    /\ spc' = [spc EXCEPT ![r] = "Unlock"]
    /\ UNCHANGED <<status, statusMutex, sarg, passed, lastSet, sexpect, squiet, nsets, serverVars, disc, parse, startVars, poolVars>>

\* the deferred s.statusMutex.Unlock(); the caller has the value
StatusReturn(r) ==
    /\ spc[r] = "Unlock"
    /\ statusMutex' = 0
    /\ spc' = [spc EXCEPT ![r] = "returned"]
    /\ UNCHANGED <<status, sarg, sret, passed, lastSet, sexpect, squiet, nsets, serverVars, disc, parse, startVars, poolVars>>

-----------------------------------------------------------------------------
(* StartNonBlocking *)

StartInit ==
    /\ lpc = [s \in Starters |-> "idle"]
    /\ listener = 0

\* the status the goroutine publishes, with the application's port in place of
\* the proxy's
StartStatusAppPort(cfg) == [Enabled |-> TRUE, Port |-> cfg.ApplicationPort]

\* ServerStatus{Enabled: true, Port: s.config.ProxyPort}
StartStatus(cfg) == [Enabled |-> TRUE, Port |-> cfg.ProxyPort]

\* StartNonBlocking: go func() {...}; return nil.  The goroutine's first
\* statement is the call s.monitor.SetStatus(...), whose steps are those of
\* SetStatus above
StartNonBlocking(s) ==
    /\ lpc[s] = "idle"
    /\ spc[s] = "idle"
    /\ sarg' = [sarg EXCEPT ![s] = StartStatus(config)]
    /\ passed' = passed \cup {StartStatus(config)}
    /\ squiet' = [r \in Readers |-> IF spc[r] = "idle" THEN squiet[r] ELSE FALSE]
    /\ spc' = [spc EXCEPT ![s] = "Lock"]
    /\ lpc' = [lpc EXCEPT ![s] = "SetStatus"]
    /\ UNCHANGED <<status, statusMutex, sret, lastSet, sexpect, nsets, listener, serverVars, disc, parse, poolVars>>

\* err := http.ListenAndServe(":ProxyPort", &proxy), after SetStatus has
\* returned: it binds the port and serves, never returning, or it fails
\* (the port is taken, by this process or by another)
ListenAndServe(s) ==
    /\ lpc[s] = "SetStatus"
    /\ spc[s] = "idle"
    /\ \E bound \in BOOLEAN :
          IF bound
          THEN /\ listener = 0
               /\ listener' = s
               /\ lpc' = [lpc EXCEPT ![s] = "serving"]
          ELSE /\ lpc' = [lpc EXCEPT ![s] = "Fatalf"]
               /\ UNCHANGED listener
    /\ UNCHANGED <<serverVars, disc, parse, poolVars, statusVars>>

\* s.logger.Fatalf("proxy serve error: %v", err): a nil logger panics, any
\* other logger exits; either way the process and all its goroutines are gone
Fatalf(s) ==
    /\ lpc[s] = "Fatalf"
    /\ lpc' = [lpc EXCEPT ![s] = IF logger = Nil THEN "panicked" ELSE "exited"]
    /\ spc' = [p \in DOMAIN spc |-> "dead"]
    /\ gpc' = [g \in DOMAIN gpc |-> "dead"]
    /\ pc' = [r \in DOMAIN pc |-> "dead"]
    /\ UNCHANGED <<config, logger, req, appID, addr, calls, ret, disc, parse, listener,
                   mutex, transports, created, gaddr, gt, returned, ngets, dial,
                   status, statusMutex, sarg, sret, passed, lastSet, sexpect, squiet, nsets>>

-----------------------------------------------------------------------------
(* The identity parser on its own: resolveTargetAppID applied to a string *)

IdAlphabet == {"a", "n", "."}

\* the namespaces of the caller
ParseNamespaces == { <<>>, <<"n">>, <<"d", "e", "v">> }

ParseInputs ==
    [namespace : ParseNamespaces, original : StringsUpTo(IdAlphabet, MaxIdLen)]

NotParsed == [called |-> FALSE, namespace |-> <<>>, original |-> <<>>,
              result |-> [id |-> ZeroAppID, err |-> Nil]]

ParseInit ==
    \E i \in ParseInputs :
        parse = [NotParsed EXCEPT !.namespace = i.namespace, !.original = i.original]

\* a call resolveTargetAppID(namespace, original)
Parse ==
    /\ ~parse.called
    /\ parse' = [parse EXCEPT !.called = TRUE,
                              !.result = resolveTargetAppID(parse.namespace, parse.original)]
    /\ UNCHANGED <<serverVars, disc, startVars, poolVars, statusVars>>

-----------------------------------------------------------------------------
(* Specifications *)

Init == ServerInit /\ disc = NoDiscovery /\ parse = NotParsed /\ PoolInit /\ StatusInit /\ StartInit

\* the proxy server handling requests
Next ==
    \E r \in Requests :
        \/ Receive(r)
        \/ RoundTrip(r)
        \/ RoundTripLocal(r)
        \/ ResolveID(r)
        \/ GetRemoteProxyAddress(r)
        \/ ForwardRemote(r)

Spec == Init /\ [][Next]_vars

\* getRemoteProxyAddress over all bounded addresses and peer answers
InitDiscovery ==
    ServerInit /\ DiscInit /\ parse = NotParsed /\ PoolInit /\ StatusInit /\ StartInit

NextDiscovery == Discover

SpecDiscovery == InitDiscovery /\ [][NextDiscovery]_vars

\* goroutines calling pool.Get concurrently
NextPool ==
    \E g \in GetCallers :
        \/ GetCall(g)
        \/ GetLock(g)
        \/ GetInit(g)
        \/ GetLookup(g)
        \/ GetCreate(g)
        \/ GetReturn(g)

SpecPool == Init /\ [][NextPool]_vars

\* goroutines calling SetStatus and Status concurrently
NextStatus ==
    \/ \E w \in Writers :
          \/ SetStatusCall(w)
          \/ SetStatusLock(w)
          \/ SetStatusEnabled(w)
          \/ SetStatusPort(w)
          \/ SetStatusUnlock(w)
    \/ \E r \in Readers :
          \/ StatusCall(r)
          \/ StatusLock(r)
          \/ StatusEnabled(r)
          \/ StatusPort(r)
          \/ StatusReturn(r)

SpecStatus == Init /\ [][NextStatus]_vars

\* StartNonBlocking's goroutine, and goroutines calling Status meanwhile
NextStart ==
    \/ \E s \in Starters :
          \/ StartNonBlocking(s)
          \/ SetStatusLock(s)
          \/ SetStatusEnabled(s)
          \/ SetStatusPort(s)
          \/ SetStatusUnlock(s)
          \/ ListenAndServe(s)
          \/ Fatalf(s)
    \/ \E r \in Readers :
          \/ StatusCall(r)
          \/ StatusLock(r)
          \/ StatusEnabled(r)
          \/ StatusPort(r)
          \/ StatusReturn(r)

SpecStart == Init /\ [][NextStart]_vars

\* resolveTargetAppID over all bounded namespaces and identity strings
InitParse ==
    ServerInit /\ disc = NoDiscovery /\ ParseInit /\ PoolInit /\ StatusInit /\ StartInit

NextParse == Parse

SpecParse == InitParse /\ [][NextParse]_vars

\* goroutines calling pool.Get concurrently and sending through the transports
NextDial ==
    \E g \in GetCallers :
        \/ GetCall(g)
        \/ GetLock(g)
        \/ GetInit(g)
        \/ GetLookup(g)
        \/ GetCreate(g)
        \/ GetReturn(g)
        \/ Dial(g)

SpecDial == Init /\ [][NextDial]_vars

\* the lock users together: goroutines calling pool.Get and dialing,
\* StartNonBlocking's goroutines, and goroutines calling Status
NextSystem ==
    \/ \E g \in GetCallers :
          \/ GetCall(g)
          \/ GetLock(g)
          \/ GetInit(g)
          \/ GetLookup(g)
          \/ GetCreate(g)
          \/ GetReturn(g)
          \/ Dial(g)
    \/ \E s \in Starters :
          \/ StartNonBlocking(s)
          \/ SetStatusLock(s)
          \/ SetStatusEnabled(s)
          \/ SetStatusPort(s)
          \/ SetStatusUnlock(s)
          \/ ListenAndServe(s)
          \/ Fatalf(s)
    \/ \E r \in Readers :
          \/ StatusCall(r)
          \/ StatusLock(r)
          \/ StatusEnabled(r)
          \/ StatusPort(r)
          \/ StatusReturn(r)

SpecSystem == Init /\ [][NextSystem]_vars

\* goroutines calling pool.Get, SetStatus and Status concurrently, under a
\* fair scheduler
NextCalls ==
    \/ \E g \in GetCallers :
          \/ GetCall(g)
          \/ GetLock(g)
          \/ GetInit(g)
          \/ GetLookup(g)
          \/ GetCreate(g)
          \/ GetReturn(g)
    \/ \E w \in Writers :
          \/ SetStatusCall(w)
          \/ SetStatusLock(w)
          \/ SetStatusEnabled(w)
          \/ SetStatusPort(w)
          \/ SetStatusUnlock(w)
    \/ \E r \in Readers :
          \/ StatusCall(r)
          \/ StatusLock(r)
          \/ StatusEnabled(r)
          \/ StatusPort(r)
          \/ StatusReturn(r)

\* The scheduler runs every runnable goroutine eventually: weak fairness of
\* the steps that wait for nothing.  A goroutine waiting in Lock is not
\* overtaken for ever: sync.Mutex hands the mutex to the longest waiter once
\* it has waited 1ms (starvation mode), which is strong fairness of the
\* acquisition.  Whether and when a goroutine makes a call is not constrained.
Fairness ==
    /\ \A g \in GetCallers :
          /\ SF_vars(GetLock(g))
          /\ WF_vars(GetInit(g) \/ GetLookup(g) \/ GetCreate(g) \/ GetReturn(g))
    /\ \A w \in Writers :
          /\ SF_vars(SetStatusLock(w))
          /\ WF_vars(SetStatusEnabled(w) \/ SetStatusPort(w) \/ SetStatusUnlock(w))
    /\ \A r \in Readers :
          /\ SF_vars(StatusLock(r))
          /\ WF_vars(StatusEnabled(r) \/ StatusPort(r) \/ StatusReturn(r))

SpecFair == Init /\ [][NextCalls]_vars /\ Fairness

-----------------------------------------------------------------------------
(* Vocabulary of the properties *)

\* the positions of the external calls named op in the call log of request r
CallsOf(r, op) == { i \in DOMAIN calls[r] : calls[r][i].op = op }

Forwards(r) == CallsOf(r, "DefaultTransport.RoundTrip")
Resolutions(r) == CallsOf(r, "ResolveID")
Discoveries(r) == CallsOf(r, "connectionCreatorFn")
StatusQueries(r) == CallsOf(r, "GetProxyStatus")

Handled(r) == pc[r] = "done"

\* RoundTrip returned this synthesized error response and a nil error
AnsweredWith(r, statusCode, errorCode) ==
    /\ ~ret[r].panicked
    /\ ret[r].err = Nil
    /\ ret[r].resp # NilResponse
    /\ ret[r].resp.StatusCode = statusCode
    /\ ret[r].resp.Body.errorCode = errorCode

\* the Destination-App-Id header is missing, has an empty value, or has several values
HeaderMissingEmptyOrDuplicated(h) ==
    \/ ~h.ok
    \/ Len(h.values) > 1
    \/ (Len(h.values) = 1 /\ h.values[1] = <<>>)

\* the request carries one non-empty header value
HasOneValue(r) ==
    /\ pc[r] # "idle"
    /\ req[r].Header.ok
    /\ Len(req[r].Header.values) = 1
    /\ req[r].Header.values[1] # <<>>

\* the header value of the request parses, and to the configured local identity or not
ParsedIdentity(r) == resolveTargetAppID(config.Namespace, req[r].Header.values[1])

LocalBound(r) ==
    /\ HasOneValue(r)
    /\ ParsedIdentity(r).err = Nil
    /\ ParsedIdentity(r).id.AppID = config.AppID
    /\ ParsedIdentity(r).id.Namespace = config.Namespace

RemoteBound(r) ==
    /\ HasOneValue(r)
    /\ ParsedIdentity(r).err = Nil
    /\ ~(/\ ParsedIdentity(r).id.AppID = config.AppID
         /\ ParsedIdentity(r).id.Namespace = config.Namespace)

\* name resolution failed for the request
ResolutionFailed(r) == \E i \in Resolutions(r) : ~calls[r][i].ok

\* peer discovery failed for the request: no channel, RPC error, or peer disabled
PeerDisabled(r) ==
    \E i \in StatusQueries(r) : calls[r][i].ok /\ ~calls[r][i].status.Enabled

DiscoveryFailed(r) ==
    \/ \E i \in Discoveries(r) : ~calls[r][i].ok
    \/ \E i \in StatusQueries(r) : ~calls[r][i].ok
    \/ PeerDisabled(r)

-----------------------------------------------------------------------------
(* C1 *)

\* C1: a handled request whose Destination-App-Id header is missing, empty or
\* duplicated was answered with HTTP 400 and code ERR_MISSING_APPID, and no
\* name resolution, peer discovery or forward was invoked for it.
C1_BadHeaderAnswered400 ==
    \A r \in Requests :
        (Handled(r) /\ HeaderMissingEmptyOrDuplicated(req[r].Header)) =>
            /\ AnsweredWith(r, 400, "ERR_MISSING_APPID")
            /\ calls[r] = <<>>

-----------------------------------------------------------------------------
(* C2 *)

LocalHost8080 ==
    <<"l", "o", "c", "a", "l", "h", "o", "s", "t", ":", "8", "0", "8", "0">>

\* C2: a request whose parsed (identity, namespace) is the configured one never
\* invokes name resolution or peer discovery, and once handled it has been
\* rewritten to scheme http, host localhost:<ApplicationPort> and forwarded
\* exactly once, to that URL, through the default transport.
C2_LocalRewrittenAndForwarded ==
    \A r \in Requests :
        LocalBound(r) =>
            /\ Resolutions(r) = {}
            /\ Discoveries(r) = {}
            /\ StatusQueries(r) = {}
            /\ Handled(r) =>
                  /\ config.ApplicationPort = 8080
                  /\ req[r].URL = [Scheme |-> <<"h", "t", "t", "p">>, Host |-> LocalHost8080]
                  /\ Len(calls[r]) = 1
                  /\ calls[r][1].op = "DefaultTransport.RoundTrip"
                  /\ calls[r][1].url = req[r].URL
                  /\ ~ret[r].panicked

\* a local request given as identity.namespace was forwarded and answered
C2_Witness ==
    \E r \in Requests :
        /\ LocalBound(r)
        /\ req[r].Header.values[1] = <<"a", ".", "n">>
        /\ Handled(r)
        /\ ret[r].resp = UpstreamResponse

-----------------------------------------------------------------------------
(* C3 *)

\* C3: for a request whose parsed (identity, namespace) is not the local one,
\* name resolution is invoked exactly once (it is the first call); if it
\* succeeded, peer discovery is invoked exactly once, with the resolved
\* address; a forward comes after both, there is at most one, and it targets
\* the corrected address discovery returned.
C3_ResolveThenDiscoverThenForward ==
    \A r \in Requests :
        RemoteBound(r) =>
            /\ Cardinality(Resolutions(r)) <= 1
            /\ pc[r] \in {"getRemoteProxyAddress", "forwardRemote", "done"} =>
                  /\ Resolutions(r) = {1}
                  /\ calls[r][1].request =
                        [ID |-> ParsedIdentity(r).id.AppID,
                         Namespace |-> ParsedIdentity(r).id.Namespace,
                         Port |-> config.ProxyPort]
            /\ Cardinality(Discoveries(r)) <= 1
            /\ Cardinality(StatusQueries(r)) <= 1
            /\ (pc[r] \in {"forwardRemote", "done"} /\ ~ResolutionFailed(r)) =>
                  /\ Discoveries(r) = {2}
                  /\ calls[r][2].addr = calls[r][1].addr
            /\ ResolutionFailed(r) => Discoveries(r) = {}
            /\ Cardinality(Forwards(r)) <= 1
            /\ \A f \in Forwards(r) :
                  /\ f = 4
                  /\ calls[r][1].ok
                  /\ calls[r][2].ok
                  /\ StatusQueries(r) = {3}
                  /\ calls[r][3].ok
                  /\ calls[r][f].url.Host = addr[r]
                  /\ calls[r][f].url.Scheme = <<"h", "t", "t", "p">>
                  /\ req[r].URL = calls[r][f].url

\* a remote request in another namespace was resolved, discovered and forwarded
C3_Witness ==
    \E r \in Requests :
        /\ RemoteBound(r)
        /\ req[r].Header.values[1] = <<"a", ".", "m">>
        /\ Handled(r)
        /\ Forwards(r) = {4}
        /\ calls[r][1].addr = <<"h", ":", "1">>
        /\ calls[r][4].url.Host = <<"h", ":", "9", "0", "0", "0">>

-----------------------------------------------------------------------------
(* C4 *)

\* the status the specification pairs with each error code
StatusOfCode(errorCode) ==
    CASE errorCode = "ERR_MISSING_APPID" -> 400
      [] errorCode = "ERR_UNRESOLVED_APPID" -> 400
      [] errorCode = "ERR_INTERNAL" -> 500
      [] OTHER -> 0

\* C4: a handled request whose peer discovery failed was answered with HTTP 500
\* and code ERR_INTERNAL, and every synthesized error response carries the
\* status paired with its code.
C4_DiscoveryFailureAnswered500 ==
    \A r \in Requests :
        /\ (Handled(r) /\ DiscoveryFailed(r)) => AnsweredWith(r, 500, "ERR_INTERNAL")
        /\ (Handled(r) /\ ret[r].resp # NilResponse /\ ret[r].resp # UpstreamResponse) =>
              ret[r].resp.StatusCode = StatusOfCode(ret[r].resp.Body.errorCode)

-----------------------------------------------------------------------------
(* C5 *)

\* C5: a handled remote-bound request whose name resolution failed was answered
\* with HTTP 400 and code ERR_UNRESOLVED_APPID, and neither peer discovery nor
\* a forward was attempted for it.
C5_UnresolvedAnswered400 ==
    \A r \in Requests :
        (Handled(r) /\ RemoteBound(r) /\ ResolutionFailed(r)) =>
            /\ AnsweredWith(r, 400, "ERR_UNRESOLVED_APPID")
            /\ Discoveries(r) = {}
            /\ StatusQueries(r) = {}
            /\ Forwards(r) = {}

-----------------------------------------------------------------------------
(* C6 *)

\* C6: when the queried peer reported enabled == false, discovery failed and
\* returned no address, the request's scheme and host are the inbound ones,
\* no forward was attempted, and the request's handling is over.
C6_DisabledPeerNoForward ==
    \A r \in Requests :
        PeerDisabled(r) =>
            /\ Handled(r)
            /\ addr[r] = <<>>
            /\ req[r].URL = InboundURL
            /\ Forwards(r) = {}
            /\ ret[r].resp # UpstreamResponse
            /\ ret[r].err # TransportError

\* a peer answered the status query with enabled == false
C6_Witness ==
    \E r \in Requests :
        /\ PeerDisabled(r)
        /\ Len(calls[r]) = 3
        /\ calls[r][3].status = [Enabled |-> FALSE, Port |-> 9000]

-----------------------------------------------------------------------------
(* C7 *)

\* the decimal text of the peer ports of DiscoveryInputs
Decimal(n) ==
    CASE n = 0 -> <<"0">>
      [] n = 7 -> <<"7">>
      [] n = 81 -> <<"8", "1">>
      [] n = 9000 -> <<"9", "0", "0", "0">>

HasColon(a) == \E i \in DOMAIN a : a[i] = ":"

LastColon(a) == CHOOSE i \in DOMAIN a : a[i] = ":" /\ \A j \in DOMAIN a : j > i => a[j] # ":"

\* C7: for an address with a colon and a peer answering enabled == true with
\* port P, discovery returns no error and the address in which everything up
\* to the last colon is kept and what follows it is the decimal text of P.
C7_PortSegmentReplaced ==
    (/\ disc.called
     /\ ~disc.outcome.connErr
     /\ ~disc.outcome.rpcErr
     /\ disc.outcome.status.Enabled
     /\ HasColon(disc.addr)) =>
        /\ disc.result.err = Nil
        /\ disc.result.addr =
              SubSeq(disc.addr, 1, LastColon(disc.addr)) \o Decimal(disc.outcome.status.Port)

\* 10.0.0.5:3500 with a peer answering {enabled: true, port: 9000} gave 10.0.0.5:9000
C7_Witness ==
    /\ disc.called
    /\ disc.addr = ExampleAddr
    /\ disc.outcome.status = [Enabled |-> TRUE, Port |-> 9000]
    /\ disc.result.addr = <<"1", "0", ".", "0", ".", "0", ".", "5", ":", "9", "0", "0", "0">>

-----------------------------------------------------------------------------
(* C8 *)

\* the request was rejected: bad header, unparsable identity, resolution
\* failure or discovery failure
Rejected(r) ==
    \/ HeaderMissingEmptyOrDuplicated(req[r].Header)
    \/ (HasOneValue(r) /\ ParsedIdentity(r).err # Nil)
    \/ ResolutionFailed(r)
    \/ DiscoveryFailed(r)

\* C8: RoundTrip of a server built by NewProxyServer never ends abnormally; on
\* every reject path it returns a response and a nil error; it returns an
\* error only when the final forward failed.
C8_AlwaysAResponseOrForwardError ==
    \A r \in Requests :
        Handled(r) =>
            /\ ~ret[r].panicked
            /\ Rejected(r) => (ret[r].resp # NilResponse /\ ret[r].err = Nil)
            /\ ret[r].err # Nil => \E f \in Forwards(r) : ~calls[r][f].ok

-----------------------------------------------------------------------------
(* C9 *)

FactoriesFor(k) == { t \in created : t.dials = k }

\* C9: there is at most one connection factory per address key, and every
\* Get that returned for a key returned that one factory, which is the one
\* the map holds for the key.
C9_OneFactoryPerKey ==
    /\ \A k \in PoolKeys : Cardinality(FactoriesFor(k)) <= 1
    /\ \A x \in returned :
          /\ FactoriesFor(x.addr) = {x.t}
          /\ ~transports.isNil
          /\ x.addr \in DOMAIN transports.m
          /\ transports.m[x.addr] = x.t
          /\ \A y \in returned : y.addr = x.addr => y.t = x.t

\* all callers were inside their first Get for the same key at once (the
\* last of them is about to return, nobody has called again), and every one
\* of them got the one factory made for the key
C9_Witness ==
    \E k \in PoolKeys, last \in GetCallers :
        /\ ngets = NumGetCallers
        /\ \A g \in GetCallers : gaddr[g] = k
        /\ gpc[last] = "return"
        /\ \A g \in GetCallers \ {last} :
              /\ gpc[g] = "idle"
              /\ \E x \in returned : x.caller = g /\ x.addr = k /\ x.t = gt[last]
        /\ FactoriesFor(k) = {gt[last]}

-----------------------------------------------------------------------------
(* C10 *)

\* C10: every value Status returned is the zero value or a value passed whole
\* to a SetStatus call; and a Status call that started when no SetStatus call
\* was in progress, and that no SetStatus call overlapped, returned the value
\* of the SetStatus call that completed last before it (the zero value when
\* there was none).
C10_StatusNeverTorn ==
    \A r \in Readers :
        spc[r] = "returned" =>
            /\ sret[r] \in {ZeroStatus} \cup passed
            /\ squiet[r] => sret[r] = sexpect[r]

\* Status returned {true, 8080} after SetStatus({true, 8080}) completed, with
\* another SetStatus call before it
C10_Witness ==
    \E r \in Readers :
        /\ spc[r] = "returned"
        /\ squiet[r]
        /\ sret[r] = [Enabled |-> TRUE, Port |-> 8080]
        /\ [Enabled |-> FALSE, Port |-> 7070] \in passed

-----------------------------------------------------------------------------
(* C11 *)

\* a listener is bound and serving
Serving == listener # 0

\* C11: the registry becomes {enabled: true, port: ProxyPort} only once the
\* listener is bound and serving: a Status query that has returned while no
\* listener is bound observed the zero value.
C11_EnabledOnlyOnceServing ==
    \A r \in Readers :
        (spc[r] = "returned" /\ ~Serving) => sret[r] = ZeroStatus

-----------------------------------------------------------------------------
(* C12 *)

\* the positions of the dots of a string
DotsOf(raw) == {i \in 1 .. Len(raw) : raw[i] = "."}

\* C12: resolveTargetAppID(ns, raw) returns {raw, ns, raw} when raw has no dot,
\* {raw, text after the dot, text before the dot} when it has exactly one, and
\* an error when it has two or more; nothing but ns and raw enters the result.
C12_ParsedByDots ==
    parse.called =>
        LET raw == parse.original
            ns == parse.namespace
            dots == DotsOf(raw)
        IN  CASE Cardinality(dots) = 0 ->
                    /\ parse.result.err = Nil
                    /\ parse.result.id = [Original |-> raw, Namespace |-> ns, AppID |-> raw]
              [] Cardinality(dots) = 1 ->
                    LET d == CHOOSE i \in dots : TRUE
                    IN  /\ parse.result.err = Nil
                        /\ parse.result.id =
                              [Original |-> raw,
                               Namespace |-> SubSeq(raw, d + 1, Len(raw)),
                               AppID |-> SubSeq(raw, 1, d - 1)]
              [] OTHER ->
                    /\ parse.result.err # Nil
                    /\ parse.result.id = ZeroAppID

C12_Witness ==
    /\ parse.called
    /\ parse.original = <<"a", ".", "n">>
    /\ parse.namespace = <<"d", "e", "v">>
    /\ parse.result.id.Namespace = <<"n">>
    /\ parse.result.id.AppID = <<"a">>

-----------------------------------------------------------------------------
(* C13 *)

\* C13: a handled request whose single non-empty Destination-App-Id value does
\* not parse (more than two dot-separated segments) was answered with HTTP 400
\* and code ERR_MISSING_APPID, and no name resolution, peer discovery or
\* forward was made for it.
C13_UnparsableAnswered400 ==
    \A r \in Requests :
        (Handled(r) /\ HasOneValue(r) /\ ParsedIdentity(r).err # Nil) =>
            /\ AnsweredWith(r, 400, "ERR_MISSING_APPID")
            /\ calls[r] = <<>>

-----------------------------------------------------------------------------
(* C14 *)

\* the external call failed, or it is a status query answered "not enabled"
CallFailed(c) ==
    \/ ~c.ok
    \/ (c.op = "GetProxyStatus" /\ ~c.status.Enabled)

\* the request was forwarded fully: the forward is its last call and what the
\* transport gave back is what RoundTrip returned
ForwardedFully(r) ==
    /\ Forwards(r) = {Len(calls[r])}
    /\ ret[r] \in {Returned(o.resp, o.err) : o \in ForwardOutcomes}
    /\ (ret[r].err = Nil) = calls[r][Len(calls[r])].ok

\* C14 as stated: every handled request was forwarded fully, or no outbound
\* call at all (name resolution, peer discovery, forward) was made for it.
C14_ForwardedOrNoUpstreamCall ==
    \A r \in Requests :
        Handled(r) => (ForwardedFully(r) \/ calls[r] = <<>>)

\* C14, amended: every handled request was forwarded fully or was rejected
\* before any forward.  A rejected request has no forward; it has no outbound
\* call at all when its header or identity was bad, and otherwise only the
\* name-resolution and discovery calls, the last of which is the one that
\* failed.  A forwarded request is none of the rejected ones.
C14_ForwardedOrRejectedBeforeForward ==
    \A r \in Requests :
        Handled(r) =>
            IF Forwards(r) # {}
            THEN /\ ForwardedFully(r)
                 /\ \A i \in 1 .. (Len(calls[r]) - 1) : ~CallFailed(calls[r][i])
                 /\ HasOneValue(r)
                 /\ ParsedIdentity(r).err = Nil
            ELSE /\ (\/ ~HasOneValue(r)
                     \/ ParsedIdentity(r).err # Nil
                     \/ ResolutionFailed(r)
                     \/ DiscoveryFailed(r))
                 /\ ret[r] \notin {Returned(o.resp, o.err) : o \in ForwardOutcomes}
                 /\ (\/ ~HasOneValue(r)
                     \/ ParsedIdentity(r).err # Nil) => calls[r] = <<>>
                 /\ calls[r] # <<>> =>
                       /\ \A i \in DOMAIN calls[r] :
                             /\ calls[r][i].op \in {"ResolveID", "connectionCreatorFn", "GetProxyStatus"}
                             /\ CallFailed(calls[r][i]) = (i = Len(calls[r]))

\* a request was rejected after its name-resolution call, and another one
\* after its discovery calls
C14_Witness ==
    \E r, q \in Requests :
        /\ Handled(r)
        /\ ResolutionFailed(r)
        /\ Len(calls[r]) = 1
        /\ Handled(q)
        /\ DiscoveryFailed(q)
        /\ Len(calls[q]) = 2
        /\ Forwards(q) = {}

-----------------------------------------------------------------------------
(* C16 *)

\* C16: a connection factory returned by Get for key K dials K, whatever
\* address the transport layer passes to its dial function and whatever
\* factories exist for other keys: so it is for every factory returned so far
\* and every address, and so it was in the last dial made.
C16_FactoryDialsItsKey ==
    /\ \A x \in returned, a \in DialArgs : DialContext(x.t, "tcp", a) = x.addr
    /\ dial.called => dial.address = dial.key

\* a factory for h:2 was handed another address and dialed h:2, while a
\* factory for h:1 exists
C16_Witness ==
    /\ dial.called
    /\ dial.key = <<"h", ":", "2">>
    /\ dial.arg = <<"h", ":", "1">>
    /\ dial.address = <<"h", ":", "2">>
    /\ FactoriesFor(<<"h", ":", "1">>) # {}

-----------------------------------------------------------------------------
(* C17 *)

\* what the external capability answered to a call
AnswerOf(c) ==
    CASE c.op = "ResolveID" -> <<c.ok, c.addr>>
      [] c.op = "connectionCreatorFn" -> <<c.ok>>
      [] c.op = "GetProxyStatus" -> <<c.ok, c.status>>
      [] c.op = "DefaultTransport.RoundTrip" -> <<c.ok>>

\* the external capabilities answered two requests alike, call by call
SameAnswers(r, q) ==
    \A i \in DOMAIN calls[r] \cap DOMAIN calls[q] :
        AnswerOf(calls[r][i]) = AnswerOf(calls[q][i])

\* two handled requests with the same header and the same answers of the
\* external capabilities have the same outcome: the same calls with the same
\* arguments, the same rewritten URL, the same thing returned
SameInputsSameOutcome ==
    \A r, q \in Requests :
        (/\ Handled(r)
         /\ Handled(q)
         /\ req[r].Header = req[q].Header
         /\ SameAnswers(r, q)) =>
            /\ Len(calls[r]) = Len(calls[q])
            /\ \A i \in DOMAIN calls[r] : calls[r][i].op = calls[q][i].op
            /\ calls[r] = calls[q]
            /\ req[r].URL = req[q].URL
            /\ ret[r] = ret[q]

\* C17: the dispatcher keeps no state across requests: the outcome of a
\* request is fixed by its header, the configuration and the answers of the
\* external capabilities, whatever other requests were or are being handled;
\* and no step of handling a request changes the configuration, the status
\* registry or the transport cache.
C17_NoStateAcrossRequests ==
    /\ []SameInputsSameOutcome
    /\ [][UNCHANGED <<config, logger, status, statusMutex, mutex, transports, created>>]_vars

\* two requests with the same header were handled, interleaved, with the same
\* answers, and both were forwarded to the same discovered address
C17_Witness ==
    \E r, q \in Requests :
        /\ r # q
        /\ Handled(r)
        /\ Handled(q)
        /\ req[r].Header = req[q].Header
        /\ RemoteBound(r)
        /\ Forwards(r) = {4}
        /\ calls[r] = calls[q]
        /\ calls[r][4].url.Host = <<"h", ":", "8", "1">>

-----------------------------------------------------------------------------
(* C18 *)

UpAtProxyPort == [Enabled |-> TRUE, Port |-> config.ProxyPort]

\* no SetStatus is inside its critical section: the registry holds a value a
\* query can observe
NoWriteInProgress == statusMutex \notin Writers \cup Starters

\* C18: in a registry written only by StartNonBlocking, the status a query can
\* observe is the zero value {false, 0} or {true, ProxyPort}, and so is every
\* value Status has returned; enabled implies port = ProxyPort; once enabled,
\* the status is never disabled again.
C18_ZeroOrUpAtProxyPort ==
    /\ [](/\ NoWriteInProgress => status \in {ZeroStatus, UpAtProxyPort}
          /\ \A r \in Readers :
                spc[r] = "returned" => sret[r] \in {ZeroStatus, UpAtProxyPort}
          /\ (NoWriteInProgress /\ status.Enabled) => status.Port = config.ProxyPort)
    /\ [][status.Enabled => status'.Enabled]_vars

\* after both calls of StartNonBlocking have published, one of them serving,
\* a query returned {true, 3500}
C18_Witness ==
    /\ \A s \in Starters : lpc[s] \notin {"idle", "SetStatus"}
    /\ Serving
    /\ \E r \in Readers :
          /\ spc[r] = "returned"
          /\ sret[r] = [Enabled |-> TRUE, Port |-> 3500]

-----------------------------------------------------------------------------
(* C19 *)

\* the request took a reject path: bad header, unparsable identity, failed
\* name resolution or failed discovery
OnRejectPath(r) ==
    /\ Handled(r)
    /\ \/ ~HasOneValue(r)
       \/ ParsedIdentity(r).err # Nil
       \/ ResolutionFailed(r)
       \/ DiscoveryFailed(r)

\* C19: the scheme and host of a request's URL differ from the inbound ones
\* only when the request was forwarded, and then they are the ones forwarded
\* to; on every reject path they are the inbound ones.
C19_UrlRewrittenOnlyToForward ==
    \A r \in Requests :
        /\ req[r].URL # InboundURL =>
              /\ Cardinality(Forwards(r)) = 1
              /\ \A f \in Forwards(r) : calls[r][f].url = req[r].URL
        /\ Forwards(r) # {} => req[r].URL # InboundURL
        /\ OnRejectPath(r) =>
              /\ req[r].URL = InboundURL
              /\ Forwards(r) = {}

\* one request was rejected after a failed discovery with its URL untouched,
\* another was rewritten and forwarded
C19_Witness ==
    \E r, q \in Requests :
        /\ OnRejectPath(r)
        /\ \E i \in Discoveries(r) : ~calls[r][i].ok
        /\ req[r].URL = InboundURL
        /\ Handled(q)
        /\ Forwards(q) # {}
        /\ req[q].URL.Host = LocalHost8080

-----------------------------------------------------------------------------
(* C15 *)

\* the process has not been ended by Fatalf
Alive == \A s \in Starters : lpc[s] \notin {"panicked", "exited"}

\* the holder of a lock is inside the critical section of Get, of SetStatus
\* or of Status
HoldersInsideCriticalSections ==
    /\ mutex # 0 => gpc[mutex] \in {"init", "lookup", "create", "return"}
    /\ statusMutex # 0 => spc[statusMutex] \in {"Enabled", "Port", "Unlock"}

\* the holder of a lock can take its next step, whatever the other
\* goroutines are waiting for
HoldersNeverWait ==
    /\ mutex # 0 =>
          ENABLED (\/ GetInit(mutex) \/ GetLookup(mutex)
                   \/ GetCreate(mutex) \/ GetReturn(mutex))
    /\ statusMutex \in Writers \cup Starters =>
          ENABLED (\/ SetStatusEnabled(statusMutex) \/ SetStatusPort(statusMutex)
                   \/ SetStatusUnlock(statusMutex))
    /\ statusMutex \in Readers =>
          ENABLED (\/ StatusEnabled(statusMutex) \/ StatusPort(statusMutex)
                   \/ StatusReturn(statusMutex))

\* a step that performs a network operation, a dial through a pooled
\* transport or the listen of StartNonBlocking, is taken by a goroutine that
\* holds no lock
NetworkStepHoldsNoLock ==
    /\ dial' # dial => mutex # dial'.by
    /\ \A s \in Starters :
          (lpc[s] = "SetStatus" /\ lpc'[s] # "SetStatus") => statusMutex # s

\* C15: no goroutine that holds the status registry's lock or the transport
\* cache's lock performs a network operation: a lock is held only inside the
\* critical sections of Get, SetStatus and Status, every network step is
\* taken by a goroutine holding no lock, and a lock holder never waits, so a
\* goroutine blocked on a slow peer cannot keep the others from completing
\* Get, Status or SetStatus.
C15_NoLockAcrossNetwork ==
    /\ [](Alive => (HoldersInsideCriticalSections /\ HoldersNeverWait))
    /\ [][NetworkStepHoldsNoLock]_vars

\* a goroutine has dialed and StartNonBlocking's goroutine is about to
\* listen, while another goroutine is inside Get and a query inside Status
C15_Witness ==
    /\ dial.called
    /\ \E s \in Starters : lpc[s] = "SetStatus" /\ spc[s] = "idle"
    /\ mutex # 0
    /\ mutex # dial.by
    /\ statusMutex \in Readers

-----------------------------------------------------------------------------
(* C20 *)

\* C20: under a fair scheduler every call of pool.Get, SetStatus and Status
\* returns, and every lock that is taken is released: no interleaving of the
\* callers deadlocks or leaves a lock held for ever.  (A goroutine is outside
\* a call again and again exactly when each of its calls returns.)
C20_EveryCallReturns ==
    /\ \A g \in GetCallers : []<>(gpc[g] = "idle")
    /\ \A w \in Writers : []<>(spc[w] = "idle")
    /\ \A r \in Readers : []<>(spc[r] \in {"idle", "returned"})
    /\ []<>(mutex = 0)
    /\ []<>(statusMutex = 0)

\* one goroutine waits for each lock while another holds it
C20_Witness ==
    /\ \E g, h \in GetCallers : mutex = g /\ gpc[h] = "Lock"
    /\ \E w \in Writers, r \in Readers : statusMutex = r /\ spc[w] = "Lock"


=============================================================================
